---- MODULE Spec2Model ----
(***************************************************************************)
(* A model of the Ethereum chain observer of aceagles/ethereum_parser:     *)
(* pkg/eth_observer/eth_observer.go (EthereumObserver), the in-memory      *)
(* transaction store (memStore) and the goroutines started by main.        *)
(*                                                                         *)
(* Strings are sequences of one-character strings, so that the conversions *)
(* the code performs on them (strings.ToLower, fmt.Sprintf("0x%x"),        *)
(* strconv.ParseInt, the slices blockNum[:2] and blockNum[2:]) are         *)
(* computed and not assumed.                                               *)
(***************************************************************************)
EXTENDS Integers, Sequences, FiniteSets, TLC

\* ------------------------------------------------------------------------
\* Bounds of the model
\* ------------------------------------------------------------------------

\* Highest block number the JSON-RPC node reports or is asked for.
MaxBlock == 3

\* Number of goroutines serving requests next to the ObserveChain goroutine.
NumHandlers == 2

\* Number of calls the request goroutines make in one behaviour.
MaxOps == 2

\* Number of AddTransactions calls made on the store taken by itself.
MaxAdds == 3

\* Highest block number of the contiguous range put through the wire format.
MaxNumber == 300

\* ------------------------------------------------------------------------
\* Processes
\* ------------------------------------------------------------------------

\* The goroutine started by "go ethObserver.ObserveChain()".
Observer == 0

Handlers == 1..NumHandlers

Procs == {Observer} \cup Handlers

\* Value of mux when no goroutine holds it.
Unlocked == -1

Blocks == 0..MaxBlock

\* ------------------------------------------------------------------------
\* Strings
\* ------------------------------------------------------------------------

LowerLetters == <<"a", "b", "c", "d", "e", "f", "x", "z">>

UpperLetters == <<"A", "B", "C", "D", "E", "F", "X", "Z">>

HexDigits == <<"0", "1", "2", "3", "4", "5", "6", "7", "8", "9", "a", "b", "c", "d", "e", "f">>

IndexOf(seq, c) ==
    IF \E k \in DOMAIN seq : seq[k] = c
    THEN CHOOSE k \in DOMAIN seq : seq[k] = c
    ELSE 0

\* unicode.ToLower on one character.
ToLowerChar(c) ==
    IF IndexOf(UpperLetters, c) # 0 THEN LowerLetters[IndexOf(UpperLetters, c)] ELSE c

\* strings.ToLower
ToLower(s) == [k \in DOMAIN s |-> ToLowerChar(s[k])]

\* Value of a base-16 digit, -1 when the character is not one.  ParseInt
\* accepts both cases of the letters a..f.
HexValue(c) ==
    IF IndexOf(HexDigits, ToLowerChar(c)) # 0
    THEN IndexOf(HexDigits, ToLowerChar(c)) - 1
    ELSE -1

RECURSIVE ParseUint(_)
\* strconv.ParseUint(s, 16, 64) on a non-empty string of digits.
ParseUint(s) ==
    IF s = <<>> THEN 0
    ELSE 16 * ParseUint(SubSeq(s, 1, Len(s) - 1)) + HexValue(s[Len(s)])

\* strconv.ParseInt(s, 16, 64): an optional sign followed by one or more
\* base-16 digits.  With an explicit base no "0x" prefix and no underscore
\* is accepted.  (The range error needs more than 15 digits and is beyond
\* the strings of this model.)
ParseInt(s) ==
    LET signed == s # <<>> /\ s[1] \in {"+", "-"}
        digits == IF signed THEN SubSeq(s, 2, Len(s)) ELSE s
    IN  IF digits = <<>> \/ \E k \in DOMAIN digits : HexValue(digits[k]) = -1
        THEN [err |-> TRUE, val |-> 0]
        ELSE [err |-> FALSE,
              val |-> IF signed /\ s[1] = "-" THEN 0 - ParseUint(digits) ELSE ParseUint(digits)]

RECURSIVE FormatUint(_)
\* The digits fmt's %x verb writes for a non-negative integer.
FormatUint(n) ==
    IF n < 16 THEN <<HexDigits[n + 1]>>
    ELSE FormatUint(n \div 16) \o <<HexDigits[(n % 16) + 1]>>

RECURSIVE FormatDecimal(_)
\* The digits fmt's %d verb writes for a non-negative integer.
FormatDecimal(n) ==
    IF n < 10 THEN <<HexDigits[n + 1]>>
    ELSE FormatDecimal(n \div 10) \o <<HexDigits[(n % 10) + 1]>>

\* fmt.Sprintf("0x%d", n): the block number written in base 10.
FormatBlockNum_Decimal(n) ==
    <<"0", "x">> \o (IF n < 0 THEN <<"-">> \o FormatDecimal(0 - n) ELSE FormatDecimal(n))

\* fmt.Sprintf("0x%x", n)
FormatBlockNum(n) ==
    <<"0", "x">> \o (IF n < 0 THEN <<"-">> \o FormatUint(0 - n) ELSE FormatUint(n))

\* ------------------------------------------------------------------------
\* Chain data
\* ------------------------------------------------------------------------

\* Addresses callers pass to Subscribe and GetTransactions, in several casings.
Addresses == {<<"a", "b">>, <<"A", "b">>, <<"C", "d">>}

\* A Transaction; the fields the observer looks at.
Tx(hash, from, to) == [Hash |-> hash, From |-> from, To |-> to]

\* The transactions of block n as the node returns them (addresses in lower
\* case): one between two addresses, one from an address to itself followed
\* by one from an address nobody subscribes to, one touching no address that
\* can be subscribed.
Chain(n) ==
    CASE n % 3 = 1 -> <<Tx(10 * n, <<"a", "b">>, <<"c", "d">>)>>
      [] n % 3 = 2 -> <<Tx(10 * n, <<"a", "b">>, <<"a", "b">>),
                        Tx(10 * n + 1, <<"e", "f">>, <<"c", "d">>)>>
      [] OTHER     -> <<Tx(10 * n, <<"e", "f">>, <<"e", "f">>)>>

\* ------------------------------------------------------------------------
\* JSON-RPC boundary
\* ------------------------------------------------------------------------

\* EthRequestStruct
Request(method, params) == [Method |-> method, Params |-> params, Id |-> 0]

\* The "result" member of a response: a JSON string, null, a block object,
\* or anything that does not decode into the type the caller expects.
Payload(kind, str, txs) == [kind |-> kind, str |-> str, txs |-> txs]

NoPayload == Payload("absent", <<>>, <<>>)

\* What comes back for one http.Post: fail stands for an error of the
\* transport or of decoding the body (a status without a JSON body, a
\* truncated body), Error for the "error" member, Id for the "id" member.
Response(fail, error, id, result) ==
    [fail |-> fail, Error |-> error, Id |-> id, Result |-> result]

\* EthResponseStruct{}
EmptyResponse == Response(FALSE, FALSE, 0, NoPayload)

\* The ways a response can be unusable whatever its result is.
FailedResponses(result) ==
    {Response(TRUE, FALSE, 0, NoPayload),
     Response(FALSE, TRUE, 0, NoPayload),
     Response(FALSE, TRUE, 0, result),
     Response(FALSE, FALSE, 1, result)}

\* QueryEthClient without the comparison of the ids.
QueryEthClient_NoIdCheck(request, response) ==
    IF response.fail THEN [err |-> TRUE, response |-> EmptyResponse]
    ELSE IF response.Error THEN [err |-> TRUE, response |-> EmptyResponse]
    ELSE [err |-> FALSE, response |-> response]

\* QueryEthClient on the response its http.Post gets.
QueryEthClient(request, response) ==
    IF response.fail THEN [err |-> TRUE, response |-> EmptyResponse]
    ELSE IF response.Error THEN [err |-> TRUE, response |-> EmptyResponse]
    ELSE IF response.Id # request.Id THEN [err |-> TRUE, response |-> EmptyResponse]
    ELSE [err |-> FALSE, response |-> response]

\* json.Unmarshal(response.Result, &blockNum) for a string target: null
\* leaves the target at its zero value without an error.
UnmarshalString(result) ==
    CASE result.kind = "string" -> [err |-> FALSE, val |-> result.str]
      [] result.kind = "null"   -> [err |-> FALSE, val |-> <<>>]
      [] OTHER                  -> [err |-> TRUE, val |-> <<>>]

\* GetBlockNumber on the given response.  panic: the slice blockNum[:2] of
\* a string shorter than two characters is out of range.
GetBlockNumber(response) ==
    LET q == QueryEthClient(Request("eth_blockNumber", <<>>), response)
        u == UnmarshalString(q.response.Result)
        blockNum == u.val
        failed == [err |-> TRUE, panic |-> FALSE, blockNum |-> <<>>]
    IN  IF q.err THEN failed
        ELSE IF u.err THEN failed
        ELSE IF Len(blockNum) < 2 THEN [err |-> FALSE, panic |-> TRUE, blockNum |-> <<>>]
        ELSE IF SubSeq(blockNum, 1, 2) # <<"0", "x">> THEN failed
        ELSE IF ParseInt(SubSeq(blockNum, 3, Len(blockNum))).err THEN failed
        ELSE [err |-> FALSE, panic |-> FALSE, blockNum |-> blockNum]

\* json.Unmarshal(response.Result, &blk) for the block target: null leaves
\* blk.Transactions nil without an error.
UnmarshalBlock(result) ==
    CASE result.kind = "block" -> [err |-> FALSE, val |-> result.txs]
      [] result.kind = "null"  -> [err |-> FALSE, val |-> <<>>]
      [] OTHER                 -> [err |-> TRUE, val |-> <<>>]

\* GetBlockByNumber on the given response.
GetBlockByNumber(blockNum, response) ==
    LET q == QueryEthClient(Request("eth_getBlockByNumber", <<blockNum, TRUE>>), response)
        u == UnmarshalBlock(q.response.Result)
    IN  IF q.err THEN [err |-> TRUE, transactions |-> <<>>]
        ELSE IF u.err THEN [err |-> TRUE, transactions |-> <<>>]
        ELSE [err |-> FALSE, transactions |-> u.val]

\* Results the node may give for eth_blockNumber: the head of the chain in
\* wire format, and the malformed ones (empty, one character, no prefix,
\* upper-case prefix, no digits, not hexadecimal, signed).
HeadStrings ==
    {FormatBlockNum(n) : n \in Blocks}
        \cup {<<>>, <<"0">>, <<"1", "b">>, <<"0", "X", "1">>, <<"0", "x">>,
              <<"0", "x", "z">>, <<"0", "x", "-", "1">>}

HeadPayloads ==
    {Payload("string", s, <<>>) : s \in HeadStrings}
        \cup {Payload("null", <<>>, <<>>), Payload("other", <<>>, <<>>), NoPayload}

\* The well-formed answer to eth_blockNumber when the head is block n.
HeadResponse(n) == Response(FALSE, FALSE, 0, Payload("string", FormatBlockNum(n), <<>>))

HeadResponses ==
    {Response(FALSE, FALSE, 0, r) : r \in HeadPayloads}
        \cup FailedResponses(Payload("string", FormatBlockNum(1), <<>>))

\* Results the node may give for eth_getBlockByNumber(blockNum, true): the
\* block it has under that number, null when it has none, or a payload that
\* does not decode into a block.
BlockPayloads(blockNum) ==
    LET n == ParseInt(SubSeq(blockNum, 3, Len(blockNum)))
    IN  {Payload("null", <<>>, <<>>), Payload("other", <<>>, <<>>), NoPayload}
            \cup (IF n.err \/ n.val < 0 THEN {} ELSE {Payload("block", <<>>, Chain(n.val))})

BlockResponses(blockNum) ==
    {Response(FALSE, FALSE, 0, r) : r \in BlockPayloads(blockNum)}
        \cup FailedResponses(Payload("block", <<>>, Chain(0)))

\* ------------------------------------------------------------------------
\* Address filter and transaction store
\* ------------------------------------------------------------------------

\* append(m[k], v...) on a Go map of slices; a missing key reads as nil.
MapAppend(m, k, vs) ==
    IF k \in DOMAIN m THEN [m EXCEPT ![k] = @ \o vs] ELSE m @@ (k :> vs)

\* The (address, transaction) pairs in the order the two loops of
\* collectSubscribedAddresses visit them: From before To, per transaction.
AddressPairs(transactions) ==
    [k \in 1..(2 * Len(transactions)) |->
        LET t == transactions[(k + 1) \div 2]
        IN  [address |-> IF k % 2 = 1 THEN t.From ELSE t.To, transaction |-> t]]

RECURSIVE CollectPairs(_, _, _)
CollectPairs(pairs, subscribed, transactionsByAddress) ==
    IF pairs = <<>> THEN transactionsByAddress
    ELSE CollectPairs(Tail(pairs), subscribed,
            IF Head(pairs).address \in subscribed
            THEN MapAppend(transactionsByAddress, Head(pairs).address,
                           <<Head(pairs).transaction>>)
            ELSE transactionsByAddress)

\* A filter whose result starts with an empty list for every subscribed
\* address.
collectSubscribedAddresses_AllKeys(transactions, subscribed) ==
    CollectPairs(AddressPairs(transactions), subscribed, [a \in subscribed |-> <<>>])

\* A filter that looks at the sender of a transaction only.
collectSubscribedAddresses_FromOnly(transactions, subscribed) ==
    CollectPairs([k \in DOMAIN transactions |->
                     [address |-> transactions[k].From, transaction |-> transactions[k]]],
                 subscribed, <<>>)

collectSubscribedAddresses(transactions, subscribed) ==
    CollectPairs(AddressPairs(transactions), subscribed, <<>>)

\* AddTransactions that leaves the store as it is.
AddTransactions_Skip(store, address, txs) == store

\* AddTransactions that replaces the list of the address by the batch.
AddTransactions_Overwrite(store, address, txs) ==
    [a \in DOMAIN store \cup {address} |-> IF a = address THEN txs ELSE store[a]]

\* memStore.AddTransactions
AddTransactions(store, address, txs) == MapAppend(store, address, txs)

\* memStore.GetTransactions: a missing key reads as the nil slice.
StoreGetTransactions(store, address) ==
    IF address \in DOMAIN store THEN store[address] ELSE <<>>

\* GetTransactions that looks the address up as it was passed.
GetTransactions_Raw(store, address) == StoreGetTransactions(store, address)

\* EthereumObserver.GetTransactions: the store's list for
\* strings.ToLower(address).
GetTransactions(store, address) == StoreGetTransactions(store, ToLower(address))

\* updateLatestBlock without its comparison.
updateLatestBlock_Always(latest, blockNum) == blockNum

\* updateLatestBlock that never assigns.
updateLatestBlock_Never(latest, blockNum) == latest

\* The comparison of updateLatestBlock: the watermark after the call.
updateLatestBlock(latest, blockNum) ==
    IF blockNum > latest THEN blockNum ELSE latest

\* addBlockToRead between Lock and Unlock.
addBlockToRead(blocks, n) == blocks \cup {n}

\* UpdateTransactions that returns on an error without addBlockToRead.
UpdateTransactionsOnError_Drop(blocks, n) == blocks

\* UpdateTransactions that replaces the pending set by the failed block.
UpdateTransactionsOnError_Reset(blocks, n) == {n}

\* UpdateTransactions when GetBlockByNumber returned an error: the pending
\* set after "e.addBlockToRead(blockNum)".
UpdateTransactionsOnError(blocks, n) == addBlockToRead(blocks, n)

\* A gap scan that starts at the watermark itself.
GapStart_AtWatermark(latest) == latest

\* A gap scan that starts one block late.
GapStart_Skip(latest) == latest + 2

\* The first block of the gap scan: "i := e.latestBlock + 1".
GapStart(latest) == latest + 1

\* A gap scan that goes on up to the head itself.
GapContinues_Inclusive(n, head) == n <= head

\* The condition of the gap scan: "i < int(blockNumInt)".
GapContinues(n, head) == n < head

\* removeBlockToRead that empties the pending set.
removeBlockToRead_All(blocks, n) == {}

\* removeBlockToRead between Lock and Unlock.
removeBlockToRead(blocks, n) == blocks \ {n}

\* Subscribe that stores the address as it was passed.
Subscribe_Raw(subscribed, addr) ==
    IF ToLower(addr) \in subscribed
    THEN [ret |-> FALSE, subscribed |-> subscribed]
    ELSE [ret |-> TRUE, subscribed |-> subscribed \cup {addr}]

\* Subscribe between Lock and Unlock: the value returned and the set left.
Subscribe(subscribed, addr) ==
    IF ToLower(addr) \in subscribed
    THEN [ret |-> FALSE, subscribed |-> subscribed]
    ELSE [ret |-> TRUE, subscribed |-> subscribed \cup {ToLower(addr)}]

\* ------------------------------------------------------------------------
\* State
\* ------------------------------------------------------------------------

VARIABLES
    latestBlock,            \* EthereumObserver.latestBlock, the watermark
    blocksToRead,           \* EthereumObserver.blocksToRead, the pending set
    subscribedAddress,      \* EthereumObserver.subscribedAddress
    transactions,           \* memStore.transactions: address -> list
    mux,                    \* the goroutine holding EthereumObserver.mux
    crashed,                \* the process died (panic or runtime fatal error)
    pc,                     \* where each goroutine is
    blockNum,               \* the blockNum argument of the call a goroutine is in
    address,                \* the address argument of the call a goroutine is in
    txs,                    \* UpdateTransactions: the list GetBlockByNumber returned
    transactionsByAddress,  \* UpdateTransactions: the part of the map not yet stored
    returned,               \* the value the call completed last handed to its caller
    blocknum,               \* ObserveChain: the int64 declared before the seed loop
    i,                      \* ObserveChain: the counter of the gap scan
    blockNumInt,            \* ObserveChain: the head the iteration parsed
    iterMust,               \* range blocksToRead: entries the range still has to produce
    iterNew,                \* range blocksToRead: entries created since the range began
    processed,              \* history: the blocks a call of UpdateTransactions got through
    called,                 \* history: the blocks a call of UpdateTransactions returned for
    oob,                    \* history: UpdateTransactions was called out of band
    seed,                   \* history: the watermark the seed phase set
    ops,                    \* history: calls the request goroutines have made
    input,                  \* a function applied by itself: its arguments
    output                  \* a function applied by itself: what it returned

shared == <<latestBlock, blocksToRead, subscribedAddress, transactions>>

obsLocals == <<blocknum, i, blockNumInt, iterMust, iterNew>>

utLocals == <<blockNum, txs, transactionsByAddress>>

reqLocals == <<address, returned, ops>>

hist == <<processed, called, oob, seed>>

harness == <<input, output>>

vars == <<latestBlock, blocksToRead, subscribedAddress, transactions, mux, crashed, pc,
          blockNum, address, txs, transactionsByAddress, returned, blocknum, i,
          blockNumInt, iterMust, iterNew, processed, called, oob, seed, ops, input, output>>

NoReturn == [op |-> "none", ok |-> FALSE, block |-> 0, list |-> <<>>]

\* No function is being applied by itself.
NoInput == [fn |-> "none"]

NoOutput == [fn |-> "none"]

\* NewEthereumObserver, NewMemStore, and every goroutine before its first step.
InitState ==
    /\ blocksToRead = {}
    /\ subscribedAddress = {}
    /\ transactions = <<>>
    /\ mux = Unlocked
    /\ crashed = FALSE
    /\ blockNum = [p \in Procs |-> 0]
    /\ address = [p \in Handlers |-> <<>>]
    /\ txs = [p \in Procs |-> <<>>]
    /\ transactionsByAddress = [p \in Procs |-> <<>>]
    /\ returned = NoReturn
    /\ blocknum = 0
    /\ i = 0
    /\ blockNumInt = 0
    /\ iterMust = {}
    /\ iterNew = {}
    /\ processed = {}
    /\ called = {}
    /\ oob = FALSE
    /\ ops = 0

\* main: the observer goroutine enters ObserveChain, the request goroutines wait.
Init ==
    /\ InitState
    /\ input = NoInput
    /\ output = NoOutput
    /\ latestBlock = 0
    /\ seed = 0
    /\ pc = [p \in Procs |-> IF p = Observer THEN "seed_check" ELSE "idle"]

\* Where a call of UpdateTransactions returns to.
ReturnPC(p) == IF p = Observer THEN "drain_next" ELSE "idle"

\* The observer goroutine is inside "for blockNum := range e.blocksToRead".
InRange ==
    pc[Observer] \in {"drain_next", "drain_rm_lock", "drain_rm_body", "ut_fetch",
                      "ut_collect", "ut_store", "ut_ulb_body", "ut_add_lock", "ut_add_body"}

\* ------------------------------------------------------------------------
\* ObserveChain, seed phase
\* ------------------------------------------------------------------------

\* "for blocknum == 0": the condition reads the int64 declared before the
\* loop.  The "blocknum, err :=" inside the body declares a second variable
\* in the body's scope, so the loop never assigns the one tested here.
SeedCheck ==
    /\ ~crashed
    /\ pc[Observer] = "seed_check"
    /\ pc' = [pc EXCEPT ![Observer] = IF blocknum = 0 THEN "seed_fetch" ELSE "poll_fetch"]
    /\ UNCHANGED <<shared, mux, crashed, utLocals, reqLocals, obsLocals, hist>>
    /\ UNCHANGED harness

\* One pass of the seed loop up to the call of updateLatestBlock:
\* GetBlockNumber, then ParseInt of blockNum[2:] into the body's blocknum,
\* which becomes the argument of updateLatestBlock.
SeedFetchOn(response) ==
    /\ ~crashed
    /\ pc[Observer] = "seed_fetch"
    /\ LET r == GetBlockNumber(response)
           parsed == ParseInt(SubSeq(r.blockNum, 3, Len(r.blockNum)))
       IN  IF r.panic
           THEN /\ crashed' = TRUE
                /\ UNCHANGED <<pc, blockNum>>
           ELSE IF r.err \/ parsed.err
           THEN /\ pc' = [pc EXCEPT ![Observer] = "seed_check"]
                /\ UNCHANGED <<crashed, blockNum>>
           ELSE /\ pc' = [pc EXCEPT ![Observer] = "seed_ulb_lock"]
                /\ blockNum' = [blockNum EXCEPT ![Observer] = parsed.val]
                /\ UNCHANGED crashed
    /\ UNCHANGED <<shared, mux, txs, transactionsByAddress, reqLocals, obsLocals, hist>>
    /\ UNCHANGED harness

\* The pass with whatever the node answers.
SeedFetch == \E response \in HeadResponses : SeedFetchOn(response)

\* updateLatestBlock called by the seed loop: e.mux.Lock()
SeedUpdateLock ==
    /\ ~crashed
    /\ pc[Observer] = "seed_ulb_lock"
    /\ mux = Unlocked
    /\ mux' = Observer
    /\ pc' = [pc EXCEPT ![Observer] = "seed_ulb_body"]
    /\ UNCHANGED <<shared, crashed, utLocals, reqLocals, obsLocals, hist>>
    /\ UNCHANGED harness

\* updateLatestBlock called by the seed loop: the comparison, the
\* assignment, the deferred Unlock, and the return to the loop condition.
SeedUpdateBody ==
    /\ ~crashed
    /\ pc[Observer] = "seed_ulb_body"
    /\ latestBlock' = updateLatestBlock(latestBlock, blockNum[Observer])
    /\ seed' = IF latestBlock' # latestBlock THEN latestBlock' ELSE seed
    /\ mux' = Unlocked
    /\ blockNum' = [blockNum EXCEPT ![Observer] = 0]
    /\ pc' = [pc EXCEPT ![Observer] = "seed_check"]
    /\ UNCHANGED <<blocksToRead, subscribedAddress, transactions, crashed, txs,
                   transactionsByAddress, reqLocals, obsLocals, processed, called, oob>>
    /\ UNCHANGED harness

\* ------------------------------------------------------------------------
\* UpdateTransactions, by the drain of ObserveChain or by a request goroutine
\* ------------------------------------------------------------------------

\* GetBlockByNumber(fmt.Sprintf("0x%x", blockNum)) and the test of err.
UTFetch(p) ==
    /\ ~crashed
    /\ pc[p] = "ut_fetch"
    /\ \E response \in BlockResponses(FormatBlockNum(blockNum[p])) :
         LET r == GetBlockByNumber(FormatBlockNum(blockNum[p]), response)
         IN  IF r.err
             THEN /\ pc' = [pc EXCEPT ![p] = "ut_add_lock"]
                  /\ UNCHANGED txs
             ELSE /\ pc' = [pc EXCEPT ![p] = "ut_collect"]
                  /\ txs' = [txs EXCEPT ![p] = r.transactions]
    /\ UNCHANGED <<shared, mux, crashed, blockNum, transactionsByAddress, reqLocals,
                   obsLocals, hist>>
    /\ UNCHANGED harness

\* collectSubscribedAddresses(transactions): reads e.subscribedAddress; the
\* mutex is not taken.
UTCollect(p) ==
    /\ ~crashed
    /\ pc[p] = "ut_collect"
    /\ transactionsByAddress' =
         [transactionsByAddress EXCEPT ![p] = collectSubscribedAddresses(txs[p], subscribedAddress)]
    /\ txs' = [txs EXCEPT ![p] = <<>>]
    /\ pc' = [pc EXCEPT ![p] = "ut_store"]
    /\ UNCHANGED <<shared, mux, crashed, blockNum, reqLocals, obsLocals, hist>>
    /\ UNCHANGED harness

\* One pass of "for address, transactions := range transactionsByAddress":
\* AddTransactions for a key in whatever order the map yields; the store has
\* no lock of its own and e.mux is not taken.
UTStore(p) ==
    /\ ~crashed
    /\ pc[p] = "ut_store"
    /\ \E a \in DOMAIN transactionsByAddress[p] :
         /\ transactions' = AddTransactions(transactions, a, transactionsByAddress[p][a])
         /\ transactionsByAddress' =
              [transactionsByAddress EXCEPT
                 ![p] = [k \in (DOMAIN transactionsByAddress[p]) \ {a} |-> transactionsByAddress[p][k]]]
    /\ UNCHANGED <<latestBlock, blocksToRead, subscribedAddress, mux, crashed, pc, blockNum,
                   txs, reqLocals, obsLocals, hist>>
    /\ UNCHANGED harness

\* The range is exhausted; updateLatestBlock(blockNum): e.mux.Lock()
UTUpdateLock(p) ==
    /\ ~crashed
    /\ pc[p] = "ut_store"
    /\ DOMAIN transactionsByAddress[p] = {}
    /\ mux = Unlocked
    /\ mux' = p
    /\ pc' = [pc EXCEPT ![p] = "ut_ulb_body"]
    /\ UNCHANGED <<shared, crashed, utLocals, reqLocals, obsLocals, hist>>
    /\ UNCHANGED harness

\* updateLatestBlock: the comparison, the assignment, the deferred Unlock;
\* UpdateTransactions returns.
UTUpdateBody(p) ==
    /\ ~crashed
    /\ pc[p] = "ut_ulb_body"
    /\ latestBlock' = updateLatestBlock(latestBlock, blockNum[p])
    /\ mux' = Unlocked
    /\ processed' = processed \cup {blockNum[p]}
    /\ called' = called \cup {blockNum[p]}
    /\ blockNum' = [blockNum EXCEPT ![p] = 0]
    /\ pc' = [pc EXCEPT ![p] = ReturnPC(p)]
    /\ UNCHANGED <<blocksToRead, subscribedAddress, transactions, crashed, txs,
                   transactionsByAddress, reqLocals, obsLocals, oob, seed>>
    /\ UNCHANGED harness

\* The fetch failed; addBlockToRead(blockNum): e.mux.Lock()
UTAddLock(p) ==
    /\ ~crashed
    /\ pc[p] = "ut_add_lock"
    /\ mux = Unlocked
    /\ mux' = p
    /\ pc' = [pc EXCEPT ![p] = "ut_add_body"]
    /\ UNCHANGED <<shared, crashed, utLocals, reqLocals, obsLocals, hist>>
    /\ UNCHANGED harness

\* addBlockToRead: the insertion and the deferred Unlock; UpdateTransactions
\* returns.  An entry created while the observer ranges over the map is one
\* the range may produce or skip.
UTAddBody(p) ==
    /\ ~crashed
    /\ pc[p] = "ut_add_body"
    /\ blocksToRead' = UpdateTransactionsOnError(blocksToRead, blockNum[p])
    /\ iterNew' = IF InRange THEN iterNew \cup (blocksToRead' \ blocksToRead) ELSE iterNew
    /\ mux' = Unlocked
    /\ blockNum' = [blockNum EXCEPT ![p] = 0]
    /\ pc' = [pc EXCEPT ![p] = ReturnPC(p)]
    /\ called' = called \cup {blockNum[p]}
    /\ UNCHANGED <<latestBlock, subscribedAddress, transactions, crashed, txs,
                   transactionsByAddress, reqLocals, blocknum, i, blockNumInt, iterMust,
                   processed, oob, seed>>
    /\ UNCHANGED harness

\* ------------------------------------------------------------------------
\* Request goroutines: the Parser interface and out-of-band UpdateTransactions
\* ------------------------------------------------------------------------

\* A caller enters Subscribe(address): e.mux.Lock()
SubscribeLock(p) ==
    /\ ~crashed
    /\ pc[p] = "idle"
    /\ ops < MaxOps
    /\ ops' = ops + 1
    /\ mux = Unlocked
    /\ \E a \in Addresses : address' = [address EXCEPT ![p] = a]
    /\ mux' = p
    /\ pc' = [pc EXCEPT ![p] = "sub_body"]
    /\ UNCHANGED <<shared, crashed, utLocals, returned, obsLocals, hist>>
    /\ UNCHANGED harness

\* Subscribe: the membership test, the insertion, the deferred Unlock.
SubscribeBody(p) ==
    /\ ~crashed
    /\ pc[p] = "sub_body"
    /\ subscribedAddress' = Subscribe(subscribedAddress, address[p]).subscribed
    /\ returned' = [NoReturn EXCEPT !.op = "Subscribe",
                                    !.ok = Subscribe(subscribedAddress, address[p]).ret]
    /\ mux' = Unlocked
    /\ address' = [address EXCEPT ![p] = <<>>]
    /\ pc' = [pc EXCEPT ![p] = "idle"]
    /\ UNCHANGED <<latestBlock, blocksToRead, transactions, crashed, utLocals, ops,
                   obsLocals, hist>>
    /\ UNCHANGED harness

\* A caller enters GetCurrentBlock().
GetCurrentBlockCall(p) ==
    /\ ~crashed
    /\ pc[p] = "idle"
    /\ ops < MaxOps
    /\ ops' = ops + 1
    /\ pc' = [pc EXCEPT ![p] = "gcb_read"]
    /\ UNCHANGED <<shared, mux, crashed, utLocals, address, returned, obsLocals, hist>>
    /\ UNCHANGED harness

\* GetCurrentBlock: "return e.latestBlock"; the mutex is not taken.
GetCurrentBlockRead(p) ==
    /\ ~crashed
    /\ pc[p] = "gcb_read"
    /\ returned' = [NoReturn EXCEPT !.op = "GetCurrentBlock", !.block = latestBlock]
    /\ pc' = [pc EXCEPT ![p] = "idle"]
    /\ UNCHANGED <<shared, mux, crashed, utLocals, address, ops, obsLocals, hist>>
    /\ UNCHANGED harness

\* A caller enters GetTransactions(address).
GetTransactionsCall(p) ==
    /\ ~crashed
    /\ pc[p] = "idle"
    /\ ops < MaxOps
    /\ ops' = ops + 1
    /\ \E a \in Addresses : address' = [address EXCEPT ![p] = a]
    /\ pc' = [pc EXCEPT ![p] = "gt_read"]
    /\ UNCHANGED <<shared, mux, crashed, utLocals, returned, obsLocals, hist>>
    /\ UNCHANGED harness

\* GetTransactions: e.transactionsStore.GetTransactions(strings.ToLower(address));
\* neither e.mux nor any lock of the store is taken.
GetTransactionsRead(p) ==
    /\ ~crashed
    /\ pc[p] = "gt_read"
    /\ returned' = [NoReturn EXCEPT
                      !.op = "GetTransactions",
                      !.list = GetTransactions(transactions, address[p])]
    /\ address' = [address EXCEPT ![p] = <<>>]
    /\ pc' = [pc EXCEPT ![p] = "idle"]
    /\ UNCHANGED <<shared, mux, crashed, utLocals, ops, obsLocals, hist>>
    /\ UNCHANGED harness

\* A caller enters UpdateTransactions(n) out of band.
UpdateTransactionsCall(p) ==
    /\ ~crashed
    /\ pc[p] = "idle"
    /\ ops < MaxOps
    /\ \E n \in 1..MaxBlock : blockNum' = [blockNum EXCEPT ![p] = n]
    /\ ops' = ops + 1
    /\ oob' = TRUE
    /\ pc' = [pc EXCEPT ![p] = "ut_fetch"]
    /\ UNCHANGED <<shared, mux, crashed, txs, transactionsByAddress, address, returned,
                   obsLocals, processed, called, seed>>
    /\ UNCHANGED harness

\* ------------------------------------------------------------------------
\* ObserveChain, polling phase
\* ------------------------------------------------------------------------

\* One pass of "for {" up to the gap scan: GetBlockNumber, ParseInt of
\* blockNum[2:], and the initialisation "i := e.latestBlock + 1", which
\* reads the watermark without the mutex.  An error restarts the pass.
PollFetch ==
    /\ ~crashed
    /\ pc[Observer] = "poll_fetch"
    /\ \E response \in HeadResponses :
         LET r == GetBlockNumber(response)
             parsed == ParseInt(SubSeq(r.blockNum, 3, Len(r.blockNum)))
         IN  IF r.panic
             THEN /\ crashed' = TRUE
                  /\ UNCHANGED <<pc, i, blockNumInt>>
             ELSE IF r.err \/ parsed.err
             THEN UNCHANGED <<crashed, pc, i, blockNumInt>>
             ELSE /\ pc' = [pc EXCEPT ![Observer] = "gap_loop"]
                  /\ blockNumInt' = parsed.val
                  /\ i' = GapStart(latestBlock)
                  /\ UNCHANGED crashed
    /\ UNCHANGED <<shared, mux, utLocals, reqLocals, blocknum, iterMust, iterNew, hist>>
    /\ UNCHANGED harness

\* "i < int(blockNumInt)": when true, addBlockToRead(i): e.mux.Lock();
\* when false the scan is over and "for blockNum := range e.blocksToRead"
\* begins on the map as it is, read without the mutex.
GapLoop ==
    /\ ~crashed
    /\ pc[Observer] = "gap_loop"
    /\ IF GapContinues(i, blockNumInt)
       THEN /\ mux = Unlocked
            /\ mux' = Observer
            /\ pc' = [pc EXCEPT ![Observer] = "gap_add_body"]
            /\ UNCHANGED <<i, blockNumInt, iterMust, iterNew>>
       ELSE /\ iterMust' = blocksToRead
            /\ iterNew' = {}
            /\ i' = 0
            /\ blockNumInt' = 0
            /\ pc' = [pc EXCEPT ![Observer] = "drain_next"]
            /\ UNCHANGED mux
    /\ UNCHANGED <<shared, crashed, utLocals, reqLocals, blocknum, hist>>
    /\ UNCHANGED harness

\* addBlockToRead(i): the insertion, the deferred Unlock, and "i++".
GapAddBody ==
    /\ ~crashed
    /\ pc[Observer] = "gap_add_body"
    /\ blocksToRead' = addBlockToRead(blocksToRead, i)
    /\ i' = i + 1
    /\ mux' = Unlocked
    /\ pc' = [pc EXCEPT ![Observer] = "gap_loop"]
    /\ UNCHANGED <<latestBlock, subscribedAddress, transactions, crashed, utLocals, reqLocals,
                   blocknum, blockNumInt, iterMust, iterNew, hist>>
    /\ UNCHANGED harness

\* The range yields its next key, read from the map without the mutex: an
\* entry that was there when the range began and is still there, or one
\* created since (Go leaves open whether the range produces such an entry).
DrainNext ==
    /\ ~crashed
    /\ pc[Observer] = "drain_next"
    /\ \E b \in (iterMust \cup iterNew) \cap blocksToRead :
         /\ blockNum' = [blockNum EXCEPT ![Observer] = b]
         /\ iterMust' = iterMust \ {b}
         /\ iterNew' = iterNew \ {b}
    /\ pc' = [pc EXCEPT ![Observer] = "drain_rm_lock"]
    /\ UNCHANGED <<shared, mux, crashed, txs, transactionsByAddress, reqLocals, blocknum, i,
                   blockNumInt, hist>>
    /\ UNCHANGED harness

\* The range ends: every entry it had to produce was produced or deleted.
DrainEnd ==
    /\ ~crashed
    /\ pc[Observer] = "drain_next"
    /\ iterMust \cap blocksToRead = {}
    /\ iterMust' = {}
    /\ iterNew' = {}
    /\ pc' = [pc EXCEPT ![Observer] = "sleep_check"]
    /\ UNCHANGED <<shared, mux, crashed, utLocals, reqLocals, blocknum, i, blockNumInt, hist>>
    /\ UNCHANGED harness

\* removeBlockToRead(blockNum): e.mux.Lock()
DrainRemoveLock ==
    /\ ~crashed
    /\ pc[Observer] = "drain_rm_lock"
    /\ mux = Unlocked
    /\ mux' = Observer
    /\ pc' = [pc EXCEPT ![Observer] = "drain_rm_body"]
    /\ UNCHANGED <<shared, crashed, utLocals, reqLocals, obsLocals, hist>>
    /\ UNCHANGED harness

\* removeBlockToRead: the delete and the deferred Unlock; the drain then
\* calls UpdateTransactions(blockNum).
DrainRemoveBody ==
    /\ ~crashed
    /\ pc[Observer] = "drain_rm_body"
    /\ blocksToRead' = removeBlockToRead(blocksToRead, blockNum[Observer])
    /\ mux' = Unlocked
    /\ pc' = [pc EXCEPT ![Observer] = "ut_fetch"]
    /\ UNCHANGED <<latestBlock, subscribedAddress, transactions, crashed, utLocals, reqLocals,
                   obsLocals, hist>>
    /\ UNCHANGED harness

\* "if len(e.blocksToRead) == 0 { <-time.After(10 * time.Second) }": the
\* length is read without the mutex; with or without the wait the next
\* pass of "for {" follows.
SleepCheck ==
    /\ ~crashed
    /\ pc[Observer] = "sleep_check"
    /\ pc' = [pc EXCEPT ![Observer] = "poll_fetch"]
    /\ UNCHANGED <<shared, mux, crashed, utLocals, reqLocals, obsLocals, hist>>
    /\ UNCHANGED harness

\* ------------------------------------------------------------------------
\* Unsynchronised map accesses
\* ------------------------------------------------------------------------

\* The maps a goroutine is about to write.
MapWrites(p) ==
    (IF pc[p] \in {"ut_add_body", "gap_add_body", "drain_rm_body"} THEN {"blocksToRead"} ELSE {})
    \cup (IF pc[p] = "sub_body" /\ ToLower(address[p]) \notin subscribedAddress
          THEN {"subscribedAddress"} ELSE {})
    \cup (IF pc[p] = "ut_store" /\ DOMAIN transactionsByAddress[p] # {}
          THEN {"transactions"} ELSE {})

\* The maps a goroutine is about to look up or iterate.
MapReads(p) ==
    (IF pc[p] = "drain_next" THEN {"blocksToRead"} ELSE {})
    \cup (IF pc[p] = "ut_collect" /\ txs[p] # <<>> THEN {"subscribedAddress"} ELSE {})
    \cup (IF pc[p] = "gt_read" THEN {"transactions"} ELSE {})

\* Two goroutines are at accesses of one map, one of them a write.
MapRace(p, q) ==
    /\ p # q
    /\ MapWrites(p) \cap (MapReads(q) \cup MapWrites(q)) # {}

\* The Go runtime detects the unsynchronised access and ends the process
\* ("fatal error: concurrent map read and map write", "concurrent map
\* iteration and map write", "concurrent map writes").  Detection is best
\* effort: the accesses may also go through one after the other, which the
\* other actions cover.
RaceFault ==
    /\ ~crashed
    /\ \E p, q \in Procs : MapRace(p, q)
    /\ crashed' = TRUE
    /\ UNCHANGED <<shared, mux, pc, utLocals, reqLocals, obsLocals, hist>>
    /\ UNCHANGED harness

\* ------------------------------------------------------------------------
\* Specifications
\* ------------------------------------------------------------------------

UpdateTransactionsStep(p) ==
    \/ UTFetch(p)
    \/ UTCollect(p)
    \/ UTStore(p)
    \/ UTUpdateLock(p)
    \/ UTUpdateBody(p)
    \/ UTAddLock(p)
    \/ UTAddBody(p)

\* The Parser interface, which the HTTP handlers of main call.  (The
\* /subscribe handler lower-cases the address before the call; Subscribe
\* lower-cases whatever it is given, so the set it leaves is the same.)
ParserStep(p) ==
    \/ SubscribeLock(p)
    \/ SubscribeBody(p)
    \/ GetCurrentBlockCall(p)
    \/ GetCurrentBlockRead(p)
    \/ GetTransactionsCall(p)
    \/ GetTransactionsRead(p)

\* Any caller of the exported methods of EthereumObserver.
RequestStep(p) ==
    \/ ParserStep(p)
    \/ UpdateTransactionsCall(p)
    \/ UpdateTransactionsStep(p)

SeedStep ==
    \/ SeedCheck
    \/ SeedFetch
    \/ SeedUpdateLock
    \/ SeedUpdateBody

PollStep ==
    \/ PollFetch
    \/ GapLoop
    \/ GapAddBody
    \/ DrainNext
    \/ DrainEnd
    \/ DrainRemoveLock
    \/ DrainRemoveBody
    \/ SleepCheck
    \/ UpdateTransactionsStep(Observer)

\* The program as main wires it: ObserveChain from its first statement,
\* next to HTTP handlers that call the Parser interface only.  No goroutine
\* of this program gets into UpdateTransactions, so no map is accessed by
\* two goroutines.
NextMain ==
    \/ SeedStep
    \/ \E p \in Handlers : ParserStep(p)

SpecMain == Init /\ [][NextMain]_vars

\* ObserveChain from its first statement next to goroutines that call any
\* exported method, UpdateTransactions included.
Next ==
    \/ SeedStep
    \/ \E p \in Handlers : RequestStep(p)
    \/ RaceFault

Spec == Init /\ [][Next]_vars

\* The loop "for {" of ObserveChain (the polling phase) entered with the
\* watermark a seed phase hands over, next to the request goroutines.  The
\* seed loop of the code never hands over (see SeedCheck), so this
\* specification describes the polling loop by itself.
InitPoll ==
    /\ InitState
    /\ input = NoInput
    /\ output = NoOutput
    /\ latestBlock = 0
    /\ seed = latestBlock
    /\ pc = [p \in Procs |-> IF p = Observer THEN "poll_fetch" ELSE "idle"]

NextPoll ==
    \/ PollStep
    \/ \E p \in Handlers : RequestStep(p)
    \/ RaceFault

SpecPoll == InitPoll /\ [][NextPoll]_vars

\* The steps of an HTTP handler inside a call it has entered.
ParserProgress(p) ==
    \/ SubscribeBody(p)
    \/ GetCurrentBlockRead(p)
    \/ GetTransactionsRead(p)

\* SpecMain under the scheduling Go gives it: no goroutine that can run is
\* left waiting forever.
FairMain ==
    /\ SpecMain
    /\ WF_vars(SeedStep)
    /\ \A p \in Handlers : WF_vars(ParserProgress(p))

\* ------------------------------------------------------------------------
\* Properties
\* ------------------------------------------------------------------------

Max(S) == CHOOSE x \in S : \A y \in S : y <= x

\* A call of UpdateTransactions by p returns in this step.
UTReturns(p) ==
    /\ pc[p] \in {"ut_ulb_body", "ut_add_body"}
    /\ pc'[p] = ReturnPC(p)

\* The drain has removed blockNum[Observer] from the pending set and the
\* UpdateTransactions call for it has not returned.
InFlight(b) ==
    /\ pc[Observer] \in {"ut_fetch", "ut_collect", "ut_store", "ut_ulb_body",
                         "ut_add_lock", "ut_add_body"}
    /\ blockNum[Observer] = b

\* C1: the watermark never decreases, whatever step is taken: a pass of the
\* seed loop, a call of UpdateTransactions that succeeds or fails, a call of
\* Subscribe.
C1_WatermarkMonotone == [][latestBlock' >= latestBlock]_vars

\* A goroutine is inside updateLatestBlock with a block number below the
\* watermark.
C1_Witness ==
    \E p \in Procs :
        /\ pc[p] \in {"seed_ulb_body", "ut_ulb_body"}
        /\ blockNum[p] < latestBlock

\* C2 as stated: every block number up to the watermark has been processed
\* by UpdateTransactions or is not above the seed block.
C2_ProcessedUpToWatermark ==
    \A b \in 0..latestBlock : b \in processed \/ b <= seed

\* C2 as amended: while only the loop of ObserveChain calls
\* UpdateTransactions, every block number above the seed block and up to the
\* watermark has been processed, is in the pending set, or is the block the
\* drain has removed and is calling UpdateTransactions for.
C2_ProcessedOrPending ==
    ~oob => \A b \in (seed + 1)..latestBlock :
                b \in processed \/ b \in blocksToRead \/ InFlight(b)

\* A block below the watermark failed and waits in the pending set.
C2_Witness ==
    /\ ~oob
    /\ \E b \in blocksToRead : seed < b /\ b < latestBlock /\ b \notin processed /\ b \in called

\* C3: once the seed phase has set the watermark from a head that parsed,
\* the next evaluation of the seed loop's condition leaves the loop for the
\* polling phase.
C3_LeavesSeedPhase ==
    [][(pc[Observer] = "seed_check" /\ seed > 0 /\ pc'[Observer] # "seed_check")
          => pc'[Observer] = "poll_fetch"]_vars

\* C4: the steps of a call of UpdateTransactions whose fetch failed leave
\* the store and the watermark as they are and remove nothing from the
\* pending set, and the step that ends the call leaves its block number in
\* the pending set.
C4_FailedFetch ==
    [][\A p \in Procs :
          (pc[p] \in {"ut_add_lock", "ut_add_body"} /\ pc'[p] # pc[p]) =>
              /\ transactions' = transactions
              /\ latestBlock' = latestBlock
              /\ blocksToRead \subseteq blocksToRead'
              /\ UTReturns(p) => blockNum[p] \in blocksToRead']_vars

\* A failed call is about to return while the pending set has another
\* member and the store has entries.
C4_Witness ==
    \E p \in Procs :
        /\ pc[p] = "ut_add_body"
        /\ blocksToRead \ {blockNum[p]} # {}
        /\ DOMAIN transactions # {}

\* C5 as stated: the watermark is the greatest of the initial watermark and
\* the block numbers of all calls of UpdateTransactions that have returned.
C5_MaxOfCalls == latestBlock = Max({seed} \cup called)

\* C5 as amended: the watermark is the greatest of the initial watermark and
\* the block numbers of the calls of UpdateTransactions whose fetch
\* succeeded; a call whose fetch failed does not count.
C5_MaxOfSucceeded == latestBlock = Max({seed} \cup processed)

\* A call for a block below the watermark succeeded and a call for a block
\* above the watermark failed.
C5_Witness ==
    /\ \E b \in processed : b < latestBlock
    /\ \E c \in called \ processed : c > latestBlock

\* C6: when the UpdateTransactions call the drain makes for a block it
\* removed from the pending set returns, the block has been processed or is
\* in the pending set.
C6_RemovedBlockNotLost ==
    [][UTReturns(Observer) =>
          (blockNum[Observer] \in processed' \/ blockNum[Observer] \in blocksToRead')]_vars

\* The drain is between two blocks, and a block it removed in this pass is
\* back in the pending set after a failed fetch.
C6_Witness ==
    /\ pc[Observer] = "drain_next"
    /\ \E b \in iterNew \cap blocksToRead : b \in called /\ b \notin processed

\* The node has answered eth_blockNumber with the head MaxBlock: the fetch
\* succeeded and the value parsed.
HeadFetched ==
    /\ pc[Observer] = "seed_ulb_lock"
    /\ blockNum[Observer] = MaxBlock

\* C7: if the node reports the head MaxBlock again and again, then once the
\* seed phase has set the watermark, every block number above it and below
\* that head is eventually processed by UpdateTransactions (unless the
\* process dies).
C7_NoBlockMissed ==
    ([]<>HeadFetched) =>
        \A b \in 1..(MaxBlock - 1) :
            []((seed \in 1..(b - 1)) => <>(b \in processed \/ crashed))

\* C8: a call of Subscribe returns false and leaves the subscription set as
\* it is when the set has the address in some casing; otherwise it returns
\* true and adds the lower-case form of the address.
C8_SubscribeIdempotent ==
    [][\A p \in Handlers :
          (pc[p] = "sub_body" /\ pc'[p] = "idle") =>
              IF \E x \in subscribedAddress : ToLower(x) = ToLower(address[p])
              THEN /\ returned'.ok = FALSE
                   /\ subscribedAddress' = subscribedAddress
              ELSE /\ returned'.ok = TRUE
                   /\ subscribedAddress' = subscribedAddress \cup {ToLower(address[p])}
                   /\ Cardinality(subscribedAddress') = Cardinality(subscribedAddress) + 1]_vars

\* A caller is inside Subscribe with an address in another casing than the
\* one the set holds.
C8_Witness ==
    \E p \in Handlers :
        /\ pc[p] = "sub_body"
        /\ address[p] \notin subscribedAddress
        /\ ToLower(address[p]) \in subscribedAddress

\* C9: the loop of ObserveChain never reads the pending set (the range, the
\* length test) while an out-of-band UpdateTransactions is inside
\* addBlockToRead, and never reads the watermark (the start of the gap scan)
\* while one is inside updateLatestBlock.
C9_LoopReadsSerialized ==
    \A p \in Handlers :
        /\ ~(pc[Observer] \in {"drain_next", "sleep_check"} /\ pc[p] = "ut_add_body")
        /\ ~(pc[Observer] = "poll_fetch" /\ pc[p] = "ut_ulb_body")

\* C10: no request goroutine is at the read of GetCurrentBlock while a
\* goroutine is inside updateLatestBlock.
C10_ReadSerialized ==
    \A p \in Handlers :
        pc[p] = "gcb_read" => \A q \in Procs : pc[q] \notin {"seed_ulb_body", "ut_ulb_body"}

\* C11: no goroutine is at the read of the subscription set in
\* collectSubscribedAddresses while a caller of Subscribe is at its write of
\* the set.
C11_FilterReadSerialized ==
    \A p \in Procs : \A q \in Handlers :
        ~("subscribedAddress" \in MapReads(p) \cap MapWrites(q))

\* The elements of a list.
Range(s) == {s[k] : k \in DOMAIN s}

\* Transaction t has address a as its sender or its receiver.
Touches(t, a) == t.From = a \/ t.To = a

program == <<shared, mux, crashed, pc, utLocals, reqLocals, obsLocals, hist>>

\* Addresses of senders and receivers, as the node returns them.
ChainAddresses == {<<"a", "b">>, <<"c", "d">>, <<"e", "f">>}

\* Lists of up to two transactions, told apart by their hashes.
TxLists ==
    {<<>>}
        \cup {<<Tx(1, f, t)>> : f \in ChainAddresses, t \in ChainAddresses}
        \cup {<<Tx(1, f[1], f[2]), Tx(2, t[1], t[2])>> :
                 f \in ChainAddresses \X ChainAddresses,
                 t \in ChainAddresses \X ChainAddresses}

\* collectSubscribedAddresses: a list of transactions and a subscription set
\* (lower-case strings, as Subscribe leaves them).
FilterInputs ==
    {[fn |-> "collectSubscribedAddresses", transactions |-> T, subscribed |-> S] :
        T \in TxLists, S \in SUBSET {ToLower(a) : a \in Addresses}}

\* Every combination of transport outcome, "error" member, "id" member and
\* result for a response to eth_blockNumber.
RpcResponses ==
    {Response(f, e, id, r) : f \in BOOLEAN, e \in BOOLEAN, id \in {0, 1}, r \in HeadPayloads}

\* QueryEthClient: a request with either id and a response.
QueryInputs ==
    {[fn |-> "QueryEthClient",
      request |-> [Request("eth_blockNumber", <<>>) EXCEPT !.Id = id],
      response |-> r] : id \in {0, 1}, r \in RpcResponses}

\* GetBlockNumber: the response its request gets.
HeadInputs == {[fn |-> "GetBlockNumber", response |-> r] : r \in RpcResponses}

InitPure ==
    /\ InitState
    /\ latestBlock = 0
    /\ seed = 0
    /\ pc = [p \in Procs |-> "idle"]
    /\ input \in FilterInputs \cup QueryInputs \cup HeadInputs
    /\ output = NoOutput

ApplyCollect ==
    /\ input.fn = "collectSubscribedAddresses"
    /\ output = NoOutput
    /\ output' = [fn |-> input.fn,
                  result |-> collectSubscribedAddresses(input.transactions, input.subscribed)]
    /\ UNCHANGED <<program, input>>

ApplyQuery ==
    /\ input.fn = "QueryEthClient"
    /\ output = NoOutput
    /\ output' = [fn |-> input.fn,
                  err |-> QueryEthClient(input.request, input.response).err,
                  response |-> QueryEthClient(input.request, input.response).response]
    /\ UNCHANGED <<program, input>>

ApplyGetBlockNumber ==
    /\ input.fn = "GetBlockNumber"
    /\ output = NoOutput
    /\ output' = [fn |-> input.fn,
                  err |-> GetBlockNumber(input.response).err,
                  panic |-> GetBlockNumber(input.response).panic,
                  blockNum |-> GetBlockNumber(input.response).blockNum]
    /\ UNCHANGED <<program, input>>

NextPure ==
    \/ ApplyCollect
    \/ ApplyQuery
    \/ ApplyGetBlockNumber

\* One call of a function of the RPC boundary or of the filter on arguments
\* drawn from the sets above.
SpecPure == InitPure /\ [][NextPure]_vars

\* ------------------------------------------------------------------------
\* Properties of the filter, the store and the RPC boundary
\* ------------------------------------------------------------------------

\* The transactions of T that have a as sender or receiver, in T's order.
SelectTouching(T, a) == SelectSeq(T, LAMBDA t : Touches(t, a))

\* The number of times x occurs in the list s.
Count(s, x) == Cardinality({k \in DOMAIN s : s[k] = x})

\* C13: while only the loop of ObserveChain calls UpdateTransactions, the
\* filter step of a call leaves, for every subscribed address, exactly the
\* fetched transactions that have the address as sender or receiver, in the
\* order of the block, and nothing for any other address; and every store
\* step appends one entry of that result to the store's list for its address
\* and leaves the lists of all other addresses as they are.
C13_StoreGetsExactMatches ==
    [][~oob' =>
        \A p \in Procs :
          /\ (pc[p] = "ut_collect" /\ pc'[p] = "ut_store") =>
                /\ DOMAIN transactionsByAddress'[p] \subseteq subscribedAddress
                /\ \A a \in subscribedAddress :
                     StoreGetTransactions(transactionsByAddress'[p], a)
                         = SelectTouching(txs[p], a)
          /\ (pc[p] = "ut_store" /\ transactionsByAddress'[p] # transactionsByAddress[p]) =>
                \E a \in DOMAIN transactionsByAddress[p] :
                    /\ DOMAIN transactionsByAddress'[p] = DOMAIN transactionsByAddress[p] \ {a}
                    /\ StoreGetTransactions(transactions', a)
                         = StoreGetTransactions(transactions, a) \o transactionsByAddress[p][a]
                    /\ \A b \in (DOMAIN transactions \cup DOMAIN transactions') \ {a} :
                         StoreGetTransactions(transactions', b)
                             = StoreGetTransactions(transactions, b)]_vars

\* C14: in the result of collectSubscribedAddresses a transaction whose
\* sender and receiver are both subscribed occurs exactly once in the list of
\* its sender and exactly once in the list of its receiver, also when the two
\* are one address.
C14_OncePerKey ==
    output.fn = "collectSubscribedAddresses" =>
        \A k \in DOMAIN input.transactions :
            LET t == input.transactions[k]
            IN  (t.From \in input.subscribed /\ t.To \in input.subscribed) =>
                    /\ Count(StoreGetTransactions(output.result, t.From), t) = 1
                    /\ Count(StoreGetTransactions(output.result, t.To), t) = 1

\* C15: every key of the result of collectSubscribedAddresses is a subscribed
\* address that is the sender or the receiver of an input transaction, and
\* its list is not empty.
C15_KeysHaveMatches ==
    output.fn = "collectSubscribedAddresses" =>
        \A a \in DOMAIN output.result :
            /\ a \in input.subscribed
            /\ output.result[a] # <<>>
            /\ \E k \in DOMAIN input.transactions : Touches(input.transactions[k], a)

\* The filter has run on two transactions, one touching a subscribed address
\* and one touching none, with a second subscribed address that no
\* transaction touches: the result has one key.
C15_Witness ==
    /\ output.fn = "collectSubscribedAddresses"
    /\ Len(input.transactions) = 2
    /\ \E k \in DOMAIN input.transactions :
         \A a \in input.subscribed : ~Touches(input.transactions[k], a)
    /\ \E a \in input.subscribed : a \notin DOMAIN output.result
    /\ Cardinality(DOMAIN output.result) = 1

\* C16: the step in which GetTransactions(address) returns hands back the
\* store's list for the lower-case form of the address, the empty list when
\* the store has none, which is also what any other casing of the address
\* gets from the same store; the step changes neither the watermark, the
\* pending set, the subscription set nor the store.
C16_GetTransactions ==
    [][\A p \in Handlers :
          (pc[p] = "gt_read" /\ pc'[p] = "idle") =>
              /\ returned'.op = "GetTransactions"
              /\ returned'.list =
                    IF ToLower(address[p]) \in DOMAIN transactions
                    THEN transactions[ToLower(address[p])]
                    ELSE <<>>
              /\ \A a \in Addresses :
                    ToLower(a) = ToLower(address[p]) =>
                        GetTransactions(transactions, a) = returned'.list
              /\ UNCHANGED <<latestBlock, blocksToRead, subscribedAddress, transactions>>]_vars

\* A caller is inside GetTransactions with an address in upper-case letters
\* while the store has transactions under its lower-case form.
C16_Witness ==
    \E p \in Handlers :
        /\ pc[p] = "gt_read"
        /\ address[p] # ToLower(address[p])
        /\ ToLower(address[p]) \in DOMAIN transactions
        /\ transactions[ToLower(address[p])] # <<>>

\* C17: whatever the node answers to a head fetch, in the seed loop or in
\* the polling loop, the step neither ends the program nor leaves the loop,
\* and it changes neither the watermark, the pending set, the subscription
\* set nor the store.
C17_HeadFetchNeverStops ==
    [][(SeedFetch \/ PollFetch) =>
          /\ ~crashed'
          /\ pc'[Observer] \in {"seed_check", "seed_ulb_lock", "poll_fetch", "gap_loop"}
          /\ UNCHANGED shared]_vars

\* A result of eth_blockNumber that is a string made of "0x" and one or more
\* hexadecimal digits.
IsBlockNumberString(result) ==
    /\ result.kind = "string"
    /\ Len(result.str) >= 3
    /\ SubSeq(result.str, 1, 2) = <<"0", "x">>
    /\ \A k \in 3..Len(result.str) : HexValue(result.str[k]) # -1

\* C18: GetBlockNumber returns a string without an error only when the
\* result is "0x" followed by one or more hexadecimal digits; on any other
\* result it returns an error and the empty string.
C18_OnlyHexBlockNumbers ==
    output.fn = "GetBlockNumber" =>
        /\ (~output.err => IsBlockNumberString(input.response.Result))
        /\ (~IsBlockNumberString(input.response.Result) =>
                output.err /\ ~output.panic /\ output.blockNum = <<>>)

\* C19: QueryEthClient returns without an error only when the response has
\* no error member and carries the id of the request, and then it returns
\* that response; a response with an error member or with another id, even
\* next to a well-formed result, gives an error and the empty response, and
\* GetBlockNumber, which calls it, then returns an error and no block number.
C19_QueryChecksErrorAndId ==
    /\ output.fn = "QueryEthClient" =>
            /\ (~output.err =>
                    /\ ~input.response.Error
                    /\ input.response.Id = input.request.Id
                    /\ output.response = input.response)
            /\ ((input.response.Error \/ input.response.Id # input.request.Id) =>
                    output.err /\ output.response = EmptyResponse)
    /\ (output.fn = "GetBlockNumber"
            /\ (input.response.Error \/ input.response.Id # Request("eth_blockNumber", <<>>).Id)) =>
            output.err /\ ~output.panic /\ output.blockNum = <<>>

\* QueryEthClient has been applied to a response that has no error member
\* and a well-formed result but the id of another request.
C19_Witness ==
    /\ output.fn = "QueryEthClient"
    /\ ~input.response.fail
    /\ ~input.response.Error
    /\ input.response.Id # input.request.Id
    /\ IsBlockNumberString(input.response.Result)
    /\ output.err

\* ------------------------------------------------------------------------
\* The transactions store by itself
\* ------------------------------------------------------------------------

\* Keys callers pass to the store; it compares them as they are.
StoreKeys == Addresses \cup {<<"e", "f">>}

\* Batches passed to AddTransactions: none, one or two transactions.
StoreBatches ==
    {<<>>,
     <<Tx(1, <<"a", "b">>, <<"c", "d">>)>>,
     <<Tx(2, <<"c", "d">>, <<"a", "b">>)>>,
     <<Tx(1, <<"a", "b">>, <<"c", "d">>), Tx(2, <<"c", "d">>, <<"a", "b">>)>>}

\* NewMemStore(); input is the sequence of AddTransactions calls made so far.
InitStore ==
    /\ InitState
    /\ latestBlock = 0
    /\ seed = 0
    /\ pc = [p \in Procs |-> "idle"]
    /\ input = <<>>
    /\ output = NoOutput

\* m.AddTransactions(a, batch)
StoreAdd ==
    /\ Len(input) < MaxAdds
    /\ \E a \in StoreKeys, batch \in StoreBatches :
         /\ transactions' = AddTransactions(transactions, a, batch)
         /\ input' = Append(input, [address |-> a, transactions |-> batch])
    /\ output' = NoOutput
    /\ UNCHANGED <<latestBlock, blocksToRead, subscribedAddress, mux, crashed, pc,
                   utLocals, reqLocals, obsLocals, hist>>

\* m.GetTransactions(a)
StoreGet ==
    /\ \E a \in StoreKeys :
         output' = [fn |-> "GetTransactions", address |-> a,
                    result |-> StoreGetTransactions(transactions, a)]
    /\ UNCHANGED <<program, input>>

NextStore ==
    \/ StoreAdd
    \/ StoreGet

\* Any sequence of calls on a new store.
SpecStore == InitStore /\ [][NextStore]_vars

RECURSIVE AddedFor(_, _)
\* The batches the calls of the sequence added for address a, one after
\* the other in call order.
AddedFor(calls, a) ==
    IF calls = <<>> THEN <<>>
    ELSE AddedFor(SubSeq(calls, 1, Len(calls) - 1), a)
            \o (IF calls[Len(calls)].address = a THEN calls[Len(calls)].transactions ELSE <<>>)

\* C20: after any sequence of AddTransactions calls the store's list of
\* every address is the concatenation, in call order, of the batches added
\* for that address, empty when none was, and that is what GetTransactions
\* returns.
C20_StoreAppends ==
    /\ \A a \in StoreKeys : StoreGetTransactions(transactions, a) = AddedFor(input, a)
    /\ output.fn = "GetTransactions" => output.result = AddedFor(input, output.address)

\* Two batches have been added for one address with a batch for another
\* address in between, a third address got none, and GetTransactions has
\* been called on the first.
C20_Witness ==
    /\ Len(input) = 3
    /\ input[1].address = input[3].address
    /\ input[2].address # input[1].address
    /\ \A k \in 1..3 : input[k].transactions # <<>>
    /\ \E a \in StoreKeys : \A k \in 1..3 : input[k].address # a
    /\ output.fn = "GetTransactions"
    /\ output.address = input[1].address

\* ------------------------------------------------------------------------
\* Properties of the store under concurrency, of the wire format and of
\* the polling loop
\* ------------------------------------------------------------------------

\* C21: the observer is never at the store's write of AddTransactions while
\* a request goroutine is at the store's read of GetTransactions.
C21_StoreAccessSerialized ==
    \A q \in Handlers :
        ~("transactions" \in MapWrites(Observer) \cap MapReads(q))

\* Block numbers put through the wire format: a contiguous range from 0 and
\* numbers of four to eight hexadecimal digits, up to the largest int32.
WireNumbers == 0..MaxNumber \cup {4095, 4096, 43981, 65535, 65536, 1048575, 16777216, 2147483647}

InitWire ==
    /\ InitState
    /\ latestBlock = 0
    /\ seed = 0
    /\ pc = [p \in Procs |-> "idle"]
    /\ input \in {[fn |-> "wire", n |-> n] : n \in WireNumbers}
    /\ output = NoOutput

\* UpdateTransactions: blockNumStr := fmt.Sprintf("0x%x", blockNum)
WireFormat ==
    /\ input.fn = "wire"
    /\ output = NoOutput
    /\ output' = [fn |-> "Sprintf", str |-> FormatBlockNum(input.n)]
    /\ UNCHANGED <<program, input>>

\* ObserveChain: strconv.ParseInt(blockNum[2:], 16, 64) on that string.
WireParse ==
    /\ output.fn = "Sprintf"
    /\ output' = [fn |-> "ParseInt", str |-> output.str,
                  err |-> ParseInt(SubSeq(output.str, 3, Len(output.str))).err,
                  val |-> ParseInt(SubSeq(output.str, 3, Len(output.str))).val]
    /\ UNCHANGED <<program, input>>

NextWire ==
    \/ WireFormat
    \/ WireParse

\* A block number written as UpdateTransactions writes it and read back as
\* ObserveChain reads it.
SpecWire == InitWire /\ [][NextWire]_vars

\* C22: the string written for a block number n >= 0 is "0x" followed by
\* lower-case hexadecimal digits, and parsing what follows the prefix in
\* base 16 gives n without an error.
C22_RoundTrip ==
    /\ output.fn \in {"Sprintf", "ParseInt"} =>
            /\ Len(output.str) >= 3
            /\ SubSeq(output.str, 1, 2) = <<"0", "x">>
            /\ \A k \in 3..Len(output.str) : IndexOf(HexDigits, output.str[k]) # 0
    /\ output.fn = "ParseInt" => ~output.err /\ output.val = input.n

\* A number of several digits, letters among them, has been written and
\* read back.
C22_Witness ==
    /\ output.fn = "ParseInt"
    /\ input.n > 255
    /\ \E k \in 3..Len(output.str) : output.str[k] \in {"a", "b", "c", "d", "e", "f"}

\* C23: a polling pass that fetched head h with watermark w starts its gap
\* scan at w + 1, inserts one block number after the other while it is
\* below h and nothing else, and goes on to the drain when it has reached
\* h, with every number between w and h pending; a block number enters the
\* pending set only through such a scan, hence below the head of that
\* pass, or through the re-insertion of a block whose fetch failed.
C23_GapScan ==
    [][/\ (pc[Observer] = "poll_fetch" /\ pc'[Observer] = "gap_loop") =>
              i' = latestBlock + 1
       /\ (pc[Observer] = "gap_add_body" /\ pc'[Observer] = "gap_loop") =>
              /\ i < blockNumInt
              /\ blocksToRead' = blocksToRead \cup {i}
              /\ i' = i + 1
              /\ blockNumInt' = blockNumInt
       /\ (pc[Observer] = "gap_loop" /\ pc'[Observer] = "drain_next") =>
              /\ i >= blockNumInt
              /\ blocksToRead' = blocksToRead
              /\ ~oob => \A b \in (latestBlock + 1)..(blockNumInt - 1) : b \in blocksToRead
       /\ (pc[Observer] \in {"gap_loop", "gap_add_body"} /\ ~oob') =>
              /\ latestBlock' = latestBlock
              /\ i > latestBlock
              /\ \A b \in (latestBlock + 1)..(i - 1) : b \in blocksToRead
       /\ \A b \in blocksToRead' \ blocksToRead :
              \/ pc[Observer] = "gap_add_body" /\ b = i /\ b < blockNumInt
              \/ \E p \in Procs : pc[p] = "ut_add_body" /\ b = blockNum[p]]_vars

\* The scan of a pass that fetched the highest head with the watermark at 0
\* is over: every block between them is pending and the head is not.
C23_Witness ==
    /\ pc[Observer] = "gap_loop"
    /\ ~oob
    /\ latestBlock = 0
    /\ blockNumInt = MaxBlock
    /\ i = blockNumInt
    /\ blocksToRead = 1..(MaxBlock - 1)

\* C24: while only the polling loop calls UpdateTransactions, the block a
\* drain pass picks is one that was pending when the pass began and that
\* the pass has not picked before; a block the pass removed and
\* UpdateTransactions re-inserted is not picked by the same pass.
C24_PickedOncePerPass ==
    [][(pc[Observer] = "drain_next" /\ pc'[Observer] = "drain_rm_lock" /\ ~oob) =>
          blockNum'[Observer] \in iterMust]_vars

\* C25: while only the polling loop calls UpdateTransactions, a call that
\* stores transactions or returns successfully is for a block that no
\* earlier call processed successfully, and the store holds a transaction
\* of a block under a key no more often than one processing of the block
\* puts it there.
C25_ProcessedOnce ==
    [][~oob' =>
          /\ \A p \in Procs :
                (pc[p] \in {"ut_store", "ut_ulb_body"}) => blockNum[p] \notin processed
          /\ \A a \in DOMAIN transactions' : \A t \in Range(transactions'[a]) :
                Count(transactions'[a], t) <= (IF t.From = t.To THEN 2 ELSE 1)]_vars

\* The polling loop is completing UpdateTransactions for a block whose
\* earlier call failed, after another block has been processed, with
\* transactions in the store.
C25_Witness ==
    /\ ~oob
    /\ pc[Observer] = "ut_ulb_body"
    /\ blockNum[Observer] \in called
    /\ processed # {}
    /\ DOMAIN transactions # {}

\* C26 as stated: when a drain pass of the polling loop is over, every block
\* number above the seed block and up to the watermark has been processed
\* or is in the pending set.
C26_EndOfPassCovered ==
    pc[Observer] = "sleep_check" =>
        \A b \in (seed + 1)..latestBlock : b \in processed \/ b \in blocksToRead

\* C26 as amended: the same, while only the loop of ObserveChain calls
\* UpdateTransactions.
C26_EndOfPassCoveredLoopOnly ==
    (pc[Observer] = "sleep_check" /\ ~oob) =>
        \A b \in (seed + 1)..latestBlock : b \in processed \/ b \in blocksToRead

\* A drain pass of the loop is over with a block below the watermark whose
\* fetch failed back in the pending set.
C26_Witness ==
    /\ pc[Observer] = "sleep_check"
    /\ ~oob
    /\ \E b \in blocksToRead : seed < b /\ b < latestBlock /\ b \in called /\ b \notin processed

====
